---- MODULE Spec2Model ----
(***************************************************************************)
(* A model of the WalletConnect core of play-cpp-sdk:                      *)
(*   - the crypto envelope and the key agreement                           *)
(*     (wallet-connect/src/v2/crypto.rs),                                  *)
(*   - the session client wrapper, its callback dispatcher, and saving     *)
(*     and restoring a client (extra-cpp-bindings/src/walletconnect.rs),   *)
(*   - the transaction pipeline (extra-cpp-bindings/src/walletconnect.rs). *)
(* Each component has its own specification (SpecCrypto, SpecNonce,        *)
(* SpecDerive, SpecSession, SpecPersist, SpecTx, SpecRuntime, SpecFlight); *)
(* the variables of the other components stay at rest.                     *)
(***************************************************************************)
EXTENDS Integers, Sequences, FiniteSets, TLC

VARIABLES
    \* crypto envelope
    key,        \* the 32-byte key given to encrypt_and_encode
    data,       \* the plaintext given to encrypt_and_encode
    envelope,   \* the text encrypt_and_encode returned
    input,      \* the text handed to decode_decrypt
    tamper,     \* what was done to the envelope before it was handed over
    outcome,    \* what decode_decrypt did
    cpc,        \* "start" -> "encoded" -> "decoded"
    drawn,      \* for each encrypt_and_encode call made under key, in order:
                \* the nonce the random source drew and the text returned
    \* key agreement
    responder_public_key,   \* the text given to derive_symkey_topic
    secret,                 \* the local secret given to derive_symkey_topic
    secret_buf,             \* derive_symkey_topic's copy of the secret, as it
                            \* stands when the function returns
    client_secret,          \* its scalar object, as it stands at the return
    derived,                \* what derive_symkey_topic returned
    dpc,                    \* "start" -> "returned"
    \* session client and callback dispatcher
    client,     \* WalletconnectClient.client: "None" or "Some"
    rt,         \* WalletconnectClient.rt: the runtime the wrapper runs on
    origin,     \* how the client was made: "none", "new" or "restored"
    state,      \* the client's lifecycle state
    session,    \* the client's SessionInfo
    channel,    \* the relay channel under the client: "open" or "closed"
    observers,  \* the observers registered by setup_callback_blocking, in order
    setups,     \* what each setup_callback_blocking call returned
    events,     \* ClientChannelMessages sent and not yet dispatched
    emitted,    \* every ClientChannelMessage sent to the dispatcher so far
    calls,      \* every observer method invoked so far
    errs,       \* the events (by position in emitted) whose handling reported an error
    ens,        \* the ensure_session_blocking call: not made, waiting, or its result
    \* saving and restoring a client
    saved,      \* what save_client returned, and the session it was given
    session_info,   \* the text handed to walletconnect_restore_client
    restored,   \* what walletconnect_restore_client returned
    \* transaction pipeline
    common,     \* the WalletConnectTxCommon the caller passed
    userinfo,   \* the other WalletConnectTxEip155 fields the caller passed
    request,    \* the transaction request text the caller passed
    op,         \* the pipeline operation that ran, "none" before
    built,      \* the transaction as construction returned it
    typedtx,    \* the typed transaction as it stood when the operation ended
    effects,    \* the requests the operation made: "web3", "sign", "send",
                \* "personal_sign"
    tres,       \* how the operation ended: "none", "ok" or "err"
    terror,     \* the error the operation returned, <<>> without one
    peer,       \* what the peer did with the operation's request: "none" when
                \* it was not asked, "answered", "rejected" or "disconnected"
    \* executors
    ran,        \* the executor of every block_on call made since the start of
                \* the behaviour, in order
    \* callers
    pending,    \* the calls of sign_transaction / send_transaction that have
                \* started and not returned: caller, operation, request text
                \* and the way the call will end
    inflight    \* the requests handed to the peer and not yet completed

cryptoVars == <<key, data, envelope, input, tamper, outcome, cpc, drawn>>

deriveVars == <<responder_public_key, secret, secret_buf, client_secret, derived, dpc>>

sessionVars ==
    <<client, rt, origin, state, session, channel, observers, setups, events, emitted,
      calls, errs, ens>>

txVars ==
    <<common, userinfo, request, op, built, typedtx, effects, tres, terror, peer>>

persistVars == <<saved, session_info, restored>>

callVars == <<pending, inflight>>

vars == <<cryptoVars, deriveVars, sessionVars, persistVars, txVars, ran, callVars>>

notCrypto == <<deriveVars, sessionVars, persistVars, txVars, ran, callVars>>
notDerive == <<cryptoVars, sessionVars, persistVars, txVars, ran, callVars>>
notSession == <<cryptoVars, deriveVars, persistVars, txVars, callVars>>
notPersist == <<cryptoVars, deriveVars, sessionVars, txVars, callVars>>
notTx == <<cryptoVars, deriveVars, sessionVars, persistVars, callVars>>

----------------------------------------------------------------------------
\* Bounds of the model

\* longest plaintext
MaxLen == 2
\* number of nonces the random source can draw
MaxNonce == 2
\* most events sent to the dispatcher in one behaviour
MaxEvents == 3
\* most setup_callback_blocking calls in one behaviour
MaxSetups == 2
\* encrypt_and_encode calls made under one key
MaxCalls == 3
\* block_on calls after which no further call is made
MaxRan == 3

----------------------------------------------------------------------------
\* Bytes and bits

Bit(x, b) == (x \div (2 ^ b)) % 2

FlipBit(x, b) == IF Bit(x, b) = 1 THEN x - 2 ^ b ELSE x + 2 ^ b

Xor8(a, b) ==
    LET f[i \in 0..8] ==
            IF i = 8 THEN 0 ELSE ((Bit(a, i) + Bit(b, i)) % 2) * 2 ^ i + f[i + 1]
    IN  f[0]

\* s[from..] , the tail of a sequence (1-based, from may be Len(s) + 1)
Tail_(s, from) == SubSeq(s, from, Len(s))

\* Option: None and Some(x)
None == <<>>
Some(x) == <<x>>

\* a faulty block_on that starts a runtime of its own for the work
block_on_new_runtime(on) == Append(on, "new runtime")

\* self.rt.block_on(work): the work runs on the wrapper's runtime; on holds
\* the executors of the block_on calls made before
block_on(on) == Append(on, rt)

\* the characters of a hexadecimal text and their values
HexDigits ==
    <<"0", "1", "2", "3", "4", "5", "6", "7", "8", "9", "a", "b", "c", "d", "e", "f">>

HexUpper == <<"A", "B", "C", "D", "E", "F">>

HexChars ==
    { HexDigits[d] : d \in 1..Len(HexDigits) } \cup { HexUpper[d] : d \in 1..Len(HexUpper) }

IsHex(c) == c \in HexChars

HexValue(c) ==
    IF \E d \in 1..Len(HexDigits) : HexDigits[d] = c
    THEN (CHOOSE d \in 1..Len(HexDigits) : HexDigits[d] = c) - 1
    ELSE (CHOOSE d \in 1..Len(HexUpper) : HexUpper[d] = c) + 9

\* the bytes two by two hexadecimal characters stand for
HexBytes(text) ==
    [i \in 1..(Len(text) \div 2) |->
        16 * HexValue(text[2 * i - 1]) + HexValue(text[2 * i])]

\* the hexadecimal text of bytes, in lower case
HexEncode(bytes) ==
    [i \in 1..(2 * Len(bytes)) |->
        IF i % 2 = 1 THEN HexDigits[(bytes[(i + 1) \div 2] \div 16) + 1]
        ELSE HexDigits[(bytes[i \div 2] % 16) + 1]]

----------------------------------------------------------------------------
\* base64, the standard alphabet with padding (general_purpose::STANDARD).
\* A text is a sequence of symbols: 0..63 are the alphabet's characters by
\* their index and Pad is '='.

Pad == 64

RECURSIVE B64Encode(_)
B64Encode(bs) ==
    IF Len(bs) = 0 THEN <<>>
    ELSE IF Len(bs) = 1 THEN
        <<bs[1] \div 4, (bs[1] % 4) * 16, Pad, Pad>>
    ELSE IF Len(bs) = 2 THEN
        <<bs[1] \div 4, (bs[1] % 4) * 16 + bs[2] \div 16, (bs[2] % 16) * 4, Pad>>
    ELSE
        <<bs[1] \div 4,
          (bs[1] % 4) * 16 + bs[2] \div 16,
          (bs[2] % 16) * 4 + bs[3] \div 64,
          bs[3] % 64>> \o B64Encode(Tail_(bs, 4))

\* the decoder accepts only canonical text: whole quads, padding only at the
\* end of the last quad, and no stray bits under the padding
B64Valid(s) ==
    /\ Len(s) % 4 = 0
    /\ \A i \in 1..Len(s) :
          \/ s[i] \in 0..63
          \/ s[i] = Pad /\ i >= Len(s) - 1 /\ \A j \in i..Len(s) : s[j] = Pad
    /\ Len(s) > 0 /\ s[Len(s)] = Pad /\ s[Len(s) - 1] # Pad => s[Len(s) - 1] % 4 = 0
    /\ Len(s) > 0 /\ s[Len(s) - 1] = Pad => s[Len(s) - 2] % 16 = 0

RECURSIVE B64Bytes(_)
B64Bytes(s) ==
    IF Len(s) = 0 THEN <<>>
    ELSE
        LET b1 == s[1] * 4 + s[2] \div 16
            b2 == (s[2] % 16) * 16 + s[3] \div 4
            b3 == (s[3] % 4) * 64 + s[4]
        IN  IF s[3] = Pad THEN <<b1>>
            ELSE IF s[4] = Pad THEN <<b1, b2>>
            ELSE <<b1, b2, b3>> \o B64Bytes(Tail_(s, 5))

B64Decode(s) ==
    IF B64Valid(s) THEN [ok |-> TRUE, bytes |-> B64Bytes(s)]
    ELSE [ok |-> FALSE, bytes |-> <<>>]

----------------------------------------------------------------------------
\* ChaCha20-Poly1305 as the crate presents it: a keystream cipher whose
\* ciphertext carries a 16-byte authenticator of the nonce and the ciphertext
\* under the key.  The arithmetic is a small stand-in: a keystream byte per
\* position and a polynomial authenticator modulo a prime.

KeyLen == 32
NonceLen == 12
TagLen == 16
MacPrime == 257

SumSeq(s) ==
    LET f[i \in 0..Len(s)] == IF i = 0 THEN 0 ELSE (f[i - 1] + s[i]) % 65536
    IN  f[Len(s)]

Keystream(k, n, i) ==
    (3 * k[((i - 1) % KeyLen) + 1] + 5 * n[((i - 1) % NonceLen) + 1]
        + 7 * i + SumSeq(n) + SumSeq(k)) % 256

MacR(k) == 1 + (SumSeq(k) % (MacPrime - 1))

MacValue(k, n, ct) ==
    LET m == n \o ct \o <<Len(ct)>>
        r == MacR(k)
        f[i \in 0..Len(m)] ==
            IF i = 0 THEN k[1] % MacPrime ELSE ((f[i - 1] + m[i]) * r) % MacPrime
    IN  f[Len(m)]

Tag(k, n, ct) ==
    LET t == MacValue(k, n, ct)
    IN  [j \in 1..TagLen |->
            IF j = 1 THEN t % 256
            ELSE IF j = 2 THEN t \div 256
            ELSE (k[j] + t * j) % 256]

\* cipher.encrypt(&nonce, data): the ciphertext followed by the tag
AeadEncrypt(k, n, pt) ==
    LET ct == [i \in 1..Len(pt) |-> Xor8(pt[i], Keystream(k, n, i))]
    IN  ct \o Tag(k, n, ct)

\* cipher.decrypt(&nonce, buf): the plaintext, or an error when the buffer is
\* shorter than a tag or the tag does not verify
AeadDecrypt(k, n, buf) ==
    IF Len(buf) < TagLen THEN [ok |-> FALSE, plain |-> <<>>]
    ELSE
        LET ct == SubSeq(buf, 1, Len(buf) - TagLen)
            tag == Tail_(buf, Len(buf) - TagLen + 1)
        IN  IF tag = Tag(k, n, ct)
            THEN [ok |-> TRUE,
                  plain |-> [i \in 1..Len(ct) |-> Xor8(ct[i], Keystream(k, n, i))]]
            ELSE [ok |-> FALSE, plain |-> <<>>]

----------------------------------------------------------------------------
\* crypto.rs

Ok(p) == [kind |-> "Ok", plain |-> p]
Err == [kind |-> "Err", plain |-> <<>>]
Panic == [kind |-> "Panic", plain |-> <<>>]

\* a faulty encrypt_and_encode that encrypts under one nonce in every call
encrypt_and_encode_fixed_nonce(k, pt, n) ==
    LET nonce == [j \in 1..NonceLen |-> 0]
        ciphertext == AeadEncrypt(k, nonce, pt)
        buf == <<0>> \o nonce \o ciphertext
    IN  B64Encode(buf)

\* a faulty encrypt_and_encode that leaves the version byte out
encrypt_and_encode_without_version(k, pt, n) ==
    LET ciphertext == AeadEncrypt(k, n, pt)
        buf == n \o ciphertext
    IN  B64Encode(buf)

\* encrypt_and_encode, with the nonce the random source drew
encrypt_and_encode(k, pt, n) ==
    LET ciphertext == AeadEncrypt(k, n, pt)
        buf == <<0>> \o n \o ciphertext
    IN  B64Encode(buf)

\* a faulty decode_decrypt that reads the nonce from decoded[0..12]
decode_decrypt_nonce_at_0(k, text) ==
    LET d == B64Decode(text)
    IN  IF ~d.ok THEN Err
        ELSE IF Len(d.bytes) < 1 + NonceLen THEN Panic
        ELSE
            LET nonce == SubSeq(d.bytes, 1, NonceLen)
                r == AeadDecrypt(k, nonce, Tail_(d.bytes, 2 + NonceLen))
            IN  IF r.ok THEN Ok(r.plain) ELSE Err

\* a faulty decode_decrypt that refuses a version byte other than 0
decode_decrypt_checks_version(k, text) ==
    LET d == B64Decode(text)
    IN  IF ~d.ok THEN Err
        ELSE IF Len(d.bytes) < 1 + NonceLen THEN Panic
        ELSE IF d.bytes[1] # 0 THEN Err
        ELSE
            LET nonce == SubSeq(d.bytes, 2, 1 + NonceLen)
                r == AeadDecrypt(k, nonce, Tail_(d.bytes, 2 + NonceLen))
            IN  IF r.ok THEN Ok(r.plain) ELSE Err

\* decode_decrypt: the slices decoded[1..13] and decoded[13..] are taken
\* without a length check, and slicing out of range panics
decode_decrypt(k, text) ==
    LET d == B64Decode(text)
    IN  IF ~d.ok THEN Err
        ELSE IF Len(d.bytes) < 1 + NonceLen THEN Panic
        ELSE
            LET nonce == SubSeq(d.bytes, 2, 1 + NonceLen)
                r == AeadDecrypt(k, nonce, Tail_(d.bytes, 2 + NonceLen))
            IN  IF r.ok THEN Ok(r.plain) ELSE Err

----------------------------------------------------------------------------
\* Inputs of the crypto envelope

Keys ==
    { [i \in 1..KeyLen |-> i],
      [i \in 1..KeyLen |-> (7 * i + 3) % 256] }

NonceOf(c) == [j \in 1..NonceLen |-> (37 * c + 11 * j) % 256]

Nonces == { NonceOf(c) : c \in 1..MaxNonce }

DataBytes == {0, 65, 255}

Datas == UNION { [1..l -> DataBytes] : l \in 0..MaxLen }

NoTamper == [kind |-> "none", pos |-> 0, bit |-> 0]

EnvelopeBytes == B64Decode(envelope).bytes

----------------------------------------------------------------------------
\* Crypto envelope: state machine

CryptoStart ==
    /\ key \in Keys
    /\ data \in Datas
    /\ envelope = <<>>
    /\ input = <<>>
    /\ tamper = NoTamper
    /\ outcome = Err
    /\ cpc = "start"
    /\ drawn = <<>>

\* a caller encrypts data under key
EncryptAndEncode ==
    /\ cpc = "start"
    /\ \E n \in Nonces :
          /\ envelope' = encrypt_and_encode(key, data, n)
          /\ input' = envelope'
          /\ drawn' = Append(drawn, [nonce |-> n, envelope |-> envelope'])
    /\ cpc' = "encoded"
    /\ UNCHANGED <<key, data, tamper, outcome, notCrypto>>

\* the caller encrypts under the same key once more
EncryptAndEncodeAgain ==
    /\ cpc = "encoded"
    /\ Len(drawn) < MaxCalls
    /\ \E n \in Nonces :
          /\ envelope' = encrypt_and_encode(key, data, n)
          /\ input' = envelope'
          /\ drawn' = Append(drawn, [nonce |-> n, envelope |-> envelope'])
    /\ UNCHANGED <<key, data, tamper, outcome, cpc, notCrypto>>

\* the envelope travels with one bit of its decoded bytes flipped
FlipEnvelopeBit ==
    /\ cpc = "encoded"
    /\ tamper = NoTamper
    /\ \E p \in 1..Len(EnvelopeBytes), b \in 0..7 :
          /\ input' = B64Encode([EnvelopeBytes EXCEPT ![p] = FlipBit(@, b)])
          /\ tamper' = [kind |-> "flip", pos |-> p, bit |-> b]
    /\ UNCHANGED <<key, data, envelope, outcome, cpc, drawn, notCrypto>>

\* only the first l bytes of the envelope arrive
TruncateEnvelope ==
    /\ cpc = "encoded"
    /\ tamper = NoTamper
    /\ \E l \in 0..(Len(EnvelopeBytes) - 1) :
          /\ input' = B64Encode(SubSeq(EnvelopeBytes, 1, l))
          /\ tamper' = [kind |-> "trunc", pos |-> l, bit |-> 0]
    /\ UNCHANGED <<key, data, envelope, outcome, cpc, drawn, notCrypto>>

\* the text that arrives is not base64: a symbol is replaced by padding, or
\* the last symbol is lost
GarbleEnvelope ==
    /\ cpc = "encoded"
    /\ tamper = NoTamper
    /\ \E p \in {0, 1, Len(envelope) - 3} :
          /\ input' = IF p = 0 THEN SubSeq(envelope, 1, Len(envelope) - 1)
                       ELSE [envelope EXCEPT ![p] = Pad]
          /\ tamper' = [kind |-> "garble", pos |-> p, bit |-> 0]
    /\ UNCHANGED <<key, data, envelope, outcome, cpc, drawn, notCrypto>>

\* the envelope reaches a receiver that holds another key
OtherKey ==
    /\ cpc = "encoded"
    /\ tamper = NoTamper
    /\ tamper' = [kind |-> "key", pos |-> 0, bit |-> 0]
    /\ UNCHANGED <<key, data, envelope, input, outcome, cpc, drawn, notCrypto>>

\* the receiver decodes what arrived, under the same key or under its own
DecodeDecrypt ==
    /\ cpc = "encoded"
    /\ outcome' = decode_decrypt(IF tamper.kind = "key"
                                  THEN CHOOSE k \in Keys : k # key
                                  ELSE key,
                                  input)
    /\ cpc' = "decoded"
    /\ UNCHANGED <<key, data, envelope, input, tamper, drawn, notCrypto>>


----------------------------------------------------------------------------
\* crypto.rs: derive_symkey_topic

\* crate::hex::decode: an even number of hexadecimal characters
hex_decode(text) ==
    IF Len(text) % 2 = 0 /\ \A i \in 1..Len(text) : IsHex(text[i])
    THEN [ok |-> TRUE, bytes |-> HexBytes(text)]
    ELSE [ok |-> FALSE, bytes |-> <<>>]

\* Zeroize::zeroize: every byte overwritten with zero
Zeroize(bytes) == [i \in 1..Len(bytes) |-> 0]

\* StaticSecret::diffie_hellman (stand-in for the curve)
DiffieHellman(scalar, point) ==
    [i \in 1..KeyLen |-> (scalar[i] * point[i] + scalar[KeyLen + 1 - i] + point[1]) % 256]

\* Hkdf::<Sha256>::new(None, ikm).expand(&[], 32 bytes) (stand-in)
HkdfExpand(ikm) ==
    LET sum == SumSeq(ikm)
    IN  [i \in 1..KeyLen |-> (ikm[i] + 31 * i + sum) % 256]

\* Sha256::digest (stand-in)
Sha256(bytes) ==
    LET sum == SumSeq(bytes)
    IN  [i \in 1..KeyLen |-> (7 * bytes[i] + 13 * i + sum) % 256]

\* what derive_symkey_topic returns, and its two secret locals at the return
Derived(res, buf, scalar, panicked) ==
    [result |-> res, secret_buf |-> buf, client_secret |-> scalar, panicked |-> panicked]

\* a faulty derive_symkey_topic that takes a key of any length
derive_symkey_topic_any_length(pk_text, local_secret) ==
    LET pk == hex_decode(pk_text)
        sym_key == HkdfExpand(DiffieHellman(local_secret,
                       [i \in 1..KeyLen |-> IF i <= Len(pk.bytes) THEN pk.bytes[i] ELSE 0]))
    IN  IF pk.ok
        THEN Derived(Some([topic |-> HexEncode(Sha256(sym_key)), key |-> sym_key]),
                     Zeroize(local_secret), Zeroize(local_secret), FALSE)
        ELSE Derived(None, Zeroize(local_secret), Zeroize(local_secret), FALSE)

\* a faulty derive_symkey_topic that returns from the malformed-key arm at once
derive_symkey_topic_early_return(pk_text, local_secret) ==
    LET pk == hex_decode(pk_text)
        sym_key == HkdfExpand(DiffieHellman(local_secret, pk.bytes))
    IN  IF pk.ok /\ Len(pk.bytes) = KeyLen
        THEN Derived(Some([topic |-> HexEncode(Sha256(sym_key)), key |-> sym_key]),
                     Zeroize(local_secret), Zeroize(local_secret), FALSE)
        ELSE Derived(None, local_secret, local_secret, FALSE)

\* a faulty derive_symkey_topic that names the topic after the shared secret
derive_symkey_topic_hashes_shared_secret(pk_text, local_secret) ==
    LET pk == hex_decode(pk_text)
        shared_secret == DiffieHellman(local_secret, pk.bytes)
        sym_key == HkdfExpand(shared_secret)
    IN  IF pk.ok /\ Len(pk.bytes) = KeyLen
        THEN Derived(Some([topic |-> HexEncode(Sha256(shared_secret)), key |-> sym_key]),
                     Zeroize(local_secret), Zeroize(local_secret), FALSE)
        ELSE Derived(None, Zeroize(local_secret), Zeroize(local_secret), FALSE)

derive_symkey_topic(pk_text, local_secret) ==
    IF Len(local_secret) # KeyLen
    THEN Derived(None, Zeroize([i \in 1..KeyLen |-> 0]), <<>>, TRUE)
    ELSE
        LET buf == local_secret
            scalar == buf
            pk == hex_decode(pk_text)
        IN  IF pk.ok /\ Len(pk.bytes) = KeyLen
            THEN LET shared_secret == DiffieHellman(scalar, pk.bytes)
                     sym_key == HkdfExpand(shared_secret)
                     hashed == Sha256(sym_key)
                     new_topic == HexEncode(hashed)
                 IN  Derived(Some([topic |-> new_topic, key |-> sym_key]),
                             Zeroize(buf), Zeroize(scalar), FALSE)
            ELSE Derived(None, Zeroize(buf), Zeroize(scalar), FALSE)

\* the secret and the responder key of test_derive_topic
TestSecret ==
    <<200, 220, 234, 171, 234, 100, 13, 117, 72, 152, 79, 140, 112, 46, 98, 203, 46, 82, 181,
      132, 149, 158, 189, 217, 78, 224, 11, 145, 159, 235, 198, 115>>

TestPeerKey ==
    <<"f", "2", "2", "5", "3", "3", "e", "8", "a", "3", "9", "8", "c", "4", "6", "5",
      "5", "6", "9", "c", "0", "4", "c", "1", "4", "b", "8", "5", "3", "c", "8", "6",
      "b", "6", "3", "a", "d", "9", "4", "f", "f", "a", "9", "1", "6", "8", "6", "1",
      "e", "b", "1", "3", "8", "8", "1", "9", "c", "8", "b", "e", "4", "7", "5", "f">>

\* the local secrets
Secrets ==
    { [i \in 1..KeyLen |-> i],
      [i \in 1..KeyLen |-> (7 * i + 3) % 256],
      [i \in 1..KeyLen |-> (200 + 11 * i) % 256],
      TestSecret }

\* the lengths of the texts a peer sends as its public key
PeerKeyLens ==
    {0, 2, 2 * KeyLen - 2, 2 * KeyLen - 1, 2 * KeyLen, 2 * KeyLen + 1, 2 * KeyLen + 2,
     4 * KeyLen}

\* the texts a peer sends as its public key: hexadecimal texts of every
\* length above, in lower and upper case, and texts of the right length with
\* a character that is not hexadecimal
PeerKeyTexts ==
    { [i \in 1..n |-> IF i % 2 = 1 THEN a ELSE "2"] :
        n \in PeerKeyLens, a \in {"0", "f", "E"} }
    \cup { [i \in 1..(2 * KeyLen) |-> IF i = p THEN a ELSE "f"] :
              p \in {1, 2, 2 * KeyLen}, a \in {"g", "x", " "} }
    \cup {TestPeerKey}

DeriveStart ==
    /\ responder_public_key \in PeerKeyTexts
    /\ secret \in Secrets
    /\ secret_buf = <<>>
    /\ client_secret = <<>>
    /\ derived = [result |-> None, panicked |-> FALSE]
    /\ dpc = "start"

DeriveRest ==
    /\ responder_public_key = <<>>
    /\ secret = <<>>
    /\ secret_buf = <<>>
    /\ client_secret = <<>>
    /\ derived = [result |-> None, panicked |-> FALSE]
    /\ dpc = "start"

\* the session proposal response arrives and the keys are derived
DeriveSymkeyTopic ==
    /\ dpc = "start"
    /\ LET r == derive_symkey_topic(responder_public_key, secret)
       IN  /\ derived' = [result |-> r.result, panicked |-> r.panicked]
           /\ secret_buf' = r.secret_buf
           /\ client_secret' = r.client_secret
    /\ dpc' = "returned"
    /\ UNCHANGED <<responder_public_key, secret, notDerive>>

----------------------------------------------------------------------------
\* Session data

Addresses == {"a1", "a2"}

\* format!("{account:#x}")
AddressHex(a) == IF a = "a1" THEN "0xa1" ELSE "0xa2"

ChainIds == {25}

\* the account lists a peer approves or updates to
PeerAccounts == {<<"a1">>, <<"a1", "a2">>}

\* the metadata a peer sends: serializable ("ok") or not serializable ("bad")
PeerMetas == {Some("ok"), Some("bad")}

\* the keys a session may hold
SessionKeys == {"k1", "k2"}

\* a SessionInfo; the peer's id is known when its metadata is
SessionInfo(c, ch, acc, pm) ==
    [connected |-> c, chain_id |-> ch, accounts |-> acc, peer_meta |-> pm,
     bridge |-> "bridge", key |-> "k1", client_id |-> "c1", client_meta |-> "ok",
     peer_id |-> IF pm = None THEN None ELSE Some("p1"), handshake_topic |-> "t1"]

NoSession == SessionInfo(FALSE, None, <<>>, None)

\* the serialized session record: the empty text is <<>>; an object is its
\* members, name and value, between braces
\* serde_json::to_string of the metadata
MetaToString(pm) ==
    IF pm = None THEN [ok |-> TRUE, text |-> ""]
    ELSE IF pm[1] = "bad" THEN [ok |-> FALSE, text |-> ""]
    ELSE [ok |-> TRUE, text |-> "{meta}"]

SessionFields ==
    <<"connected", "chain_id", "accounts", "bridge", "key", "client_id",
      "client_meta", "peer_id", "peer_meta", "handshake_topic">>

Serialize(info) ==
    <<"{">> \o [k \in 1..Len(SessionFields) |-> <<SessionFields[k], info[SessionFields[k]]>>]
           \o <<"}">>

Member(text, name) ==
    { i \in 2..(Len(text) - 1) : text[i][1] = name }

\* serde_json::from_str::<SessionInfo>: the text must be an object holding
\* every field; members it does not know are ignored
Deserialize(text) ==
    IF /\ Len(text) >= 2
       /\ text[1] = "{"
       /\ text[Len(text)] = "}"
       /\ \A k \in 1..Len(SessionFields) :
              Cardinality(Member(text, SessionFields[k])) = 1
    THEN [ok |-> TRUE,
          info |-> [f \in DOMAIN NoSession |->
                       text[CHOOSE i \in Member(text, f) : TRUE][2]]]
    ELSE [ok |-> FALSE, info |-> NoSession]

\* the records a caller may hand to restore_client
RestoreRecords ==
    { [SessionInfo(c, ch, acc, None) EXCEPT !.key = k] :
        c \in BOOLEAN, ch \in {None, Some(25)}, acc \in {<<>>, <<"a1">>},
        k \in SessionKeys }

RestoreTexts ==
    { <<>>, <<"{", "}">>, <<"not json">> }
        \cup { Serialize(r) : r \in RestoreRecords }
        \cup { <<"{", <<"unknown", 0>>>> \o Tail_(Serialize(r), 2) : r \in RestoreRecords }

----------------------------------------------------------------------------
\* walletconnect.rs: creating a client

\* Client::new: a fresh client waits for its peer
ClientNew(chain_id) ==
    [state |-> "Pairing", session |-> SessionInfo(FALSE, chain_id, <<>>, None)]

\* Client::restore: the client is rebuilt in the state the record tells
ClientRestore(info) ==
    [state |-> IF info.connected THEN "Connected" ELSE "Disconnected",
     session |-> info]

\* new_client: the icon urls and the url must parse; chain id 0 is no chain id
new_client(urls_ok, chain_id) ==
    IF ~urls_ok THEN [ok |-> FALSE, client |-> ClientNew(None)]
    ELSE [ok |-> TRUE,
          client |-> ClientNew(IF chain_id = 0 THEN None ELSE Some(chain_id))]

\* a faulty restore_client that falls back to an empty session when the
\* contents do not deserialize
restore_client_or_default(contents) ==
    IF contents = <<>> THEN [ok |-> FALSE, client |-> ClientRestore(NoSession)]
    ELSE [ok |-> TRUE, client |-> ClientRestore(Deserialize(contents).info)]

\* a faulty restore_client that makes a fresh client for the record's chain
restore_client_renews(contents) ==
    IF contents = <<>> THEN [ok |-> FALSE, client |-> ClientRestore(NoSession)]
    ELSE
        LET d == Deserialize(contents)
        IN  IF ~d.ok THEN [ok |-> FALSE, client |-> ClientRestore(NoSession)]
            ELSE [ok |-> TRUE, client |-> ClientNew(d.info.chain_id)]

\* restore_client: empty contents and contents that do not deserialize fail
restore_client(contents) ==
    IF contents = <<>> THEN [ok |-> FALSE, client |-> ClientRestore(NoSession)]
    ELSE
        LET d == Deserialize(contents)
        IN  IF ~d.ok THEN [ok |-> FALSE, client |-> ClientRestore(NoSession)]
            ELSE [ok |-> TRUE, client |-> ClientRestore(d.info)]

\* a faulty save_client that writes the record of a session without accounts
save_client_without_accounts(info) ==
    [ok |-> TRUE, text |-> Serialize([info EXCEPT !.accounts = <<>>])]

\* save_client: the session information of the client, serialized; a session
\* whose metadata does not serialize is an error
save_client(info) ==
    IF ~MetaToString(info.peer_meta).ok \/ ~MetaToString(Some(info.client_meta)).ok
    THEN [ok |-> FALSE, text |-> <<>>]
    ELSE [ok |-> TRUE, text |-> Serialize(info)]

----------------------------------------------------------------------------
\* walletconnect.rs: the callback closure

\* convert_session_info
convert_session_info(sessioninfo) ==
    LET chain_id == IF sessioninfo.chain_id = None THEN ""
                    ELSE ToString(sessioninfo.chain_id[1])
        accountstrings == [i \in 1..Len(sessioninfo.accounts) |->
                              AddressHex(sessioninfo.accounts[i])]
        clientmeta == MetaToString(Some(sessioninfo.client_meta))
        peermeta == MetaToString(sessioninfo.peer_meta)
    IN  IF ~clientmeta.ok \/ ~peermeta.ok THEN [ok |-> FALSE, info |-> <<>>]
        ELSE [ok |-> TRUE,
              info |-> [connected |-> sessioninfo.connected,
                        chainid |-> chain_id,
                        accounts |-> accountstrings,
                        bridge |-> sessioninfo.bridge,
                        key |-> <<"0x", sessioninfo.key>>,
                        clientid |-> sessioninfo.client_id,
                        clientmeta |-> clientmeta.text,
                        peerid |-> IF sessioninfo.peer_id = None THEN ""
                                   ELSE sessioninfo.peer_id[1],
                        peermeta |-> peermeta.text,
                        handshaketopic |-> sessioninfo.handshake_topic]]

\* a faulty match whose Connected and Disconnected arms call each other's method
CallbackMethodSwapped(msgstate) ==
    CASE msgstate = "Connected" -> "onDisconnected"
      [] msgstate = "Disconnected" -> "onConnected"
      [] msgstate = "Connecting" -> "onConnecting"
      [] msgstate = "Updated" -> "onUpdated"

\* a faulty match whose Updated arm calls the method of the Connecting arm
CallbackMethodCopied(msgstate) ==
    CASE msgstate = "Connected" -> "onConnected"
      [] msgstate = "Disconnected" -> "onDisconnected"
      [] msgstate = "Connecting" -> "onConnecting"
      [] msgstate = "Updated" -> "onConnecting"

\* the match of the closure: which observer method an event's state selects
CallbackMethod(msgstate) ==
    CASE msgstate = "Connected" -> "onConnected"
      [] msgstate = "Disconnected" -> "onDisconnected"
      [] msgstate = "Connecting" -> "onConnecting"
      [] msgstate = "Updated" -> "onUpdated"

\* a faulty closure that invokes the observer with an empty session when the
\* message carries none
CallbackWithoutSession(message) ==
    LET c == convert_session_info(IF message.session = None
                                  THEN NoSession
                                  ELSE message.session[1])
    IN  IF ~c.ok THEN [ok |-> FALSE, invoked |-> <<>>]
        ELSE [ok |-> TRUE,
              invoked |-> <<[method |-> CallbackMethod(message.state),
                             info |-> c.info]>>]

\* the closure setup_callback hands to run_callback: the observer method
\* invoked for one message (none when the closure returns an error)
Callback(message) ==
    IF message.session = None THEN [ok |-> FALSE, invoked |-> <<>>]
    ELSE
        LET c == convert_session_info(message.session[1])
        IN  IF ~c.ok THEN [ok |-> FALSE, invoked |-> <<>>]
            ELSE [ok |-> TRUE,
                  invoked |-> <<[method |-> CallbackMethod(message.state),
                                 info |-> c.info]>>]

\* a faulty run_callback that keeps the old observer beside the new one
RunCallbackKeepsBoth(registered, o) == {Append(registered, o)}

\* Client::run_callback, second registration on: the new observer replaces
\* the old one, or the registration is rejected; the observers that stay
\* registered after observer o asks
RunCallback(registered, o) ==
    IF registered = <<>> THEN {<<o>>}
    ELSE {<<o>>, registered}

\* the observers the dispatcher invokes for one message
Receivers(registered) == registered

----------------------------------------------------------------------------
\* walletconnect.rs: ensure_session

NoResult == [st |-> "idle", addresses |-> <<>>, chain_id |-> 0, error |-> <<>>]
Waiting == [st |-> "waiting", addresses |-> <<>>, chain_id |-> 0, error |-> <<>>]
Failure == [st |-> "failed", addresses |-> <<>>, chain_id |-> 0, error |-> <<>>]

\* Client::ensure_session on a connected session: its accounts and chain id
SessionTuple(info) ==
    [ok |-> TRUE,
     accounts |-> info.accounts,
     chain_id |-> IF info.chain_id = None THEN 0 ELSE info.chain_id[1],
     error |-> "", peer |-> "answered"]

\* Client::ensure_session failing: the error it returns, and what the peer did
ErrTuple(e) ==
    [ok |-> FALSE, accounts |-> <<>>, chain_id |-> 0, error |-> e,
     peer |-> IF e \in {"rejected", "disconnected"} THEN e ELSE "none"]

NoTuple == ErrTuple("no session")

\* why no session can be established: the client was Disconnected when
\* asked; or, for a waiting call, the peer declined (no accounts were ever
\* approved) or the peer or the channel went away
EnsureSessionError(waiting, st, info) ==
    IF ~waiting THEN (IF st = "Disconnected" THEN "no session" ELSE "disconnected")
    ELSE IF st = "Disconnected" /\ info.accounts = <<>> THEN "rejected"
    ELSE "disconnected"

\* Client::ensure_session as one call: on a connected session its accounts
\* and chain id; on a Disconnected client an error; otherwise the call waits,
\* and the peer approves, declines, or is gone before it answers
ClientEnsureSession(st, info) ==
    IF st = "Connected" THEN {SessionTuple(info)}
    ELSE IF st = "Disconnected" THEN {ErrTuple(EnsureSessionError(FALSE, st, info))}
    ELSE { SessionTuple([info EXCEPT !.connected = TRUE, !.accounts = acc,
                                     !.chain_id = Some(ch)]) :
             acc \in PeerAccounts, ch \in ChainIds }
         \cup {ErrTuple("rejected"), ErrTuple("disconnected")}

\* a faulty ensure_session_blocking that returns its empty result on an error
ensure_session_blocking_swallows(has_client, result) ==
    IF ~has_client THEN [Failure EXCEPT !.error = <<"no client">>]
    ELSE [st |-> "ok", addresses |-> result.accounts, chain_id |-> result.chain_id,
          error |-> <<>>]

\* ensure_session_blocking, given what client.ensure_session() came back with
ensure_session_blocking(has_client, result) ==
    IF ~has_client THEN [Failure EXCEPT !.error = <<"no client">>]
    ELSE IF ~result.ok
         THEN [Failure EXCEPT !.error = <<"ensure_session error", result.error>>]
    ELSE [st |-> "ok", addresses |-> result.accounts, chain_id |-> result.chain_id,
          error |-> <<>>]

----------------------------------------------------------------------------
\* Session client: state machine

SessionStart ==
    /\ client = "None"
    /\ rt = "runtime"
    /\ origin = "none"
    /\ state = "Idle"
    /\ session = NoSession
    /\ channel = "open"
    /\ observers = <<>>
    /\ setups = <<>>
    /\ events = <<>>
    /\ emitted = <<>>
    /\ calls = <<>>
    /\ errs = {}
    /\ ens = NoResult

\* the client sends a message to the dispatcher, when one is registered; the
\* message carries the session or nothing
Emit(msgstate, info) ==
    IF observers = <<>> THEN UNCHANGED <<events, emitted>>
    ELSE
        /\ Len(emitted) < MaxEvents
        /\ \E payload \in {None, Some(info)} :
              LET message == [state |-> msgstate, session |-> payload]
              IN  /\ events' = Append(events, message)
                  /\ emitted' = Append(emitted, message)

WalletconnectNewClient ==
    /\ client = "None"
    /\ \E urls_ok \in BOOLEAN, chain_id \in {0, 25} :
          LET r == new_client(urls_ok, chain_id)
          IN  /\ r.ok
              /\ client' = "Some"
              /\ origin' = "new"
              /\ state' = r.client.state
              /\ session' = r.client.session
    /\ ran' = block_on(ran)
    /\ UNCHANGED <<channel, observers, setups, events, emitted, calls, errs, ens, rt, notSession>>

WalletconnectRestoreClient ==
    /\ client = "None"
    /\ \E contents \in RestoreTexts :
          LET r == restore_client(contents)
          IN  /\ r.ok
              /\ client' = "Some"
              /\ origin' = "restored"
              /\ state' = r.client.state
              /\ session' = r.client.session
    /\ ran' = block_on(ran)
    /\ UNCHANGED <<channel, observers, setups, events, emitted, calls, errs, ens, rt, notSession>>

\* setup_callback_blocking: without a client it fails; with one, the observer
\* is handed to run_callback
SetupCallbackBlocking ==
    /\ Len(setups) < MaxSetups
    /\ IF client = "None"
       THEN /\ setups' = Append(setups, "no client")
            /\ UNCHANGED <<observers, ran>>
       ELSE \E after \in RunCallback(observers, Len(setups) + 1) :
               /\ observers' = after
               /\ setups' = Append(setups, IF after = observers THEN "rejected" ELSE "ok")
               /\ ran' = block_on(ran)
    /\ UNCHANGED <<client, origin, state, session, channel, events, emitted, calls,
                   errs, ens, rt, notSession>>

\* the peer opens the relay channel
PeerOpens ==
    /\ state = "Pairing" /\ channel = "open"
    /\ state' = "AwaitingApproval"
    /\ Emit("Connecting", session)
    /\ UNCHANGED <<client, origin, session, channel, observers, setups, calls, errs, ens, rt, ran, notSession>>

\* the peer approves the session
PeerApproves ==
    /\ state = "AwaitingApproval" /\ channel = "open"
    /\ \E acc \in PeerAccounts, ch \in ChainIds, pm \in PeerMetas :
          /\ session' = SessionInfo(TRUE, Some(ch), acc, pm)
          /\ Emit("Connected", session')
    /\ state' = "Connected"
    /\ UNCHANGED <<client, origin, channel, observers, setups, calls, errs, ens, rt, ran, notSession>>

\* the peer declines the session
PeerRejects ==
    /\ state = "AwaitingApproval" /\ channel = "open"
    /\ state' = "Disconnected"
    /\ Emit("Disconnected", session)
    /\ UNCHANGED <<client, origin, session, channel, observers, setups, calls, errs, ens, rt, ran, notSession>>

\* the peer changes accounts or chain
PeerUpdates ==
    /\ state = "Connected" /\ channel = "open"
    /\ \E acc \in PeerAccounts, ch \in ChainIds :
          /\ session' = [session EXCEPT !.accounts = acc, !.chain_id = Some(ch)]
          /\ session' # session
          /\ Emit("Updated", session')
    /\ UNCHANGED <<client, origin, state, channel, observers, setups, calls, errs, ens, rt, ran, notSession>>

\* the peer ends the session
PeerDisconnects ==
    /\ state = "Connected" /\ channel = "open"
    /\ state' = "Disconnected"
    /\ session' = [session EXCEPT !.connected = FALSE]
    /\ Emit("Disconnected", session')
    /\ UNCHANGED <<client, origin, channel, observers, setups, calls, errs, ens, rt, ran, notSession>>

\* the relay channel is torn down
ChannelCloses ==
    /\ client = "Some" /\ channel = "open"
    /\ channel' = "closed"
    /\ UNCHANGED <<client, origin, state, session, observers, setups, events, emitted,
                   calls, errs, ens, rt, ran, notSession>>

\* the dispatcher task takes the next message and runs the closure of every
\* observer it serves
Dispatch ==
    /\ events # <<>>
    /\ LET message == Head(events)
           index == Len(emitted) - Len(events) + 1
           to == Receivers(observers)
           r == Callback(message)
       IN  /\ calls' = calls \o
                  [i \in 1..(Len(to) * Len(r.invoked)) |->
                      [observer |-> to[i], event |-> index,
                       method |-> r.invoked[1].method, info |-> r.invoked[1].info]]
           /\ errs' = IF r.ok THEN errs ELSE errs \cup {index}
    /\ events' = Tail(events)
    /\ UNCHANGED <<client, origin, state, session, channel, observers, setups, emitted,
                   ens, rt, ran, notSession>>

\* ensure_session_blocking is called: it returns at once without a client,
\* with a connected session, or when no session can be established any more
EnsureSessionCall ==
    /\ ens.st = "idle"
    /\ ens' = IF client = "None" THEN ensure_session_blocking(FALSE, NoTuple)
              ELSE IF state = "Connected"
                   THEN ensure_session_blocking(TRUE, SessionTuple(session))
              ELSE IF state = "Disconnected" \/ channel = "closed"
                   THEN ensure_session_blocking(
                            TRUE, ErrTuple(EnsureSessionError(FALSE, state, session)))
              ELSE Waiting
    /\ ran' = IF client = "None" THEN ran ELSE block_on(ran)
    /\ UNCHANGED <<client, origin, state, session, channel, observers, setups, events,
                   emitted, calls, errs, rt, notSession>>

\* the waiting call returns once the session is connected
EnsureSessionReturns ==
    /\ ens.st = "waiting"
    /\ state = "Connected"
    /\ ens' = ensure_session_blocking(TRUE, SessionTuple(session))
    /\ UNCHANGED <<client, origin, state, session, channel, observers, setups, events,
                   emitted, calls, errs, rt, ran, notSession>>

\* the waiting call fails once no session can be established
EnsureSessionFails ==
    /\ ens.st = "waiting"
    /\ state # "Connected"
    /\ state = "Disconnected" \/ channel = "closed"
    /\ ens' = ensure_session_blocking(
                  TRUE, ErrTuple(EnsureSessionError(TRUE, state, session)))
    /\ UNCHANGED <<client, origin, state, session, channel, observers, setups, events,
                   emitted, calls, errs, rt, ran, notSession>>

\* get_connection_string: without a client it fails; with one, the client is
\* asked for its connection string on the wrapper's runtime
GetConnectionString ==
    /\ Len(ran) < MaxRan
    /\ ran' = IF client = "None" THEN ran ELSE block_on(ran)
    /\ UNCHANGED <<sessionVars, notSession>>

\* print_uri: without a client it fails; with one, the client is asked for
\* its session information on the wrapper's runtime
PrintUri ==
    /\ Len(ran) < MaxRan
    /\ ran' = IF client = "None" THEN ran ELSE block_on(ran)
    /\ UNCHANGED <<sessionVars, notSession>>

----------------------------------------------------------------------------
\* Saving a client and restoring one from a text

NoSaved == [st |-> "none", text |-> <<>>, info |-> NoSession]

NoRestored == [st |-> "none", client |-> None]

PersistRest ==
    /\ saved = NoSaved
    /\ session_info = <<>>
    /\ restored = NoRestored

\* WalletconnectClient::save_client: without a client it fails; with one, the
\* session information of the client is serialized
SaveClient ==
    /\ saved.st = "none"
    /\ saved' = IF client = "None" THEN [NoSaved EXCEPT !.st = "err"]
                 ELSE LET r == save_client(session)
                      IN  [st |-> IF r.ok THEN "ok" ELSE "err", text |-> r.text,
                           info |-> session]
    /\ ran' = IF client = "None" THEN ran ELSE block_on(ran)
    /\ UNCHANGED <<session_info, restored, notPersist>>

\* walletconnect_restore_client on a text: one of the texts a caller may hold,
\* or the text save_client returned
RestoreClient ==
    /\ restored.st = "none"
    /\ \E text \in RestoreTexts \cup {saved.text} :
          LET r == restore_client(text)
          IN  /\ session_info' = text
              /\ restored' = IF r.ok THEN [st |-> "ok", client |-> Some(r.client)]
                              ELSE [st |-> "err", client |-> None]
    /\ ran' = block_on(ran)
    /\ UNCHANGED <<saved, notPersist>>

----------------------------------------------------------------------------
\* Transaction pipeline: data

\* u64 is modelled with ChainIdBits bits
ChainIdBits == 8

U64Max == 2 ^ ChainIdBits - 1

\* !x on an unsigned integer: every bit inverted
BitNot(x) == U64Max - x

Digits == <<"0", "1", "2", "3", "4", "5", "6", "7", "8", "9">>

DigitValue(c) == CHOOSE d \in 0..9 : Digits[d + 1] = c

IsDigit(c) == \E d \in 0..9 : Digits[d + 1] = c

\* a faulty from_dec_str that takes the empty text for an error
from_dec_str_rejects_empty(text) ==
    LET f[i \in 0..Len(text)] ==
            IF i = 0 THEN 0 ELSE 10 * f[i - 1] + DigitValue(text[i])
    IN  IF text # <<>> /\ \A i \in 1..Len(text) : IsDigit(text[i])
        THEN [ok |-> TRUE, val |-> f[Len(text)]]
        ELSE [ok |-> FALSE, val |-> 0]

\* U256::from_dec_str: a text is a sequence of characters; every character
\* must be a decimal digit, and the empty text is 0
from_dec_str(text) ==
    LET f[i \in 0..Len(text)] ==
            IF i = 0 THEN 0 ELSE 10 * f[i - 1] + DigitValue(text[i])
    IN  IF \A i \in 1..Len(text) : IsDigit(text[i])
        THEN [ok |-> TRUE, val |-> f[Len(text)]]
        ELSE [ok |-> FALSE, val |-> 0]

\* the decimal texts a caller passes: unset, zero, numbers, and not a number
DecTexts == {<<>>, <<"0">>, <<"7">>, <<"1", "2">>, <<"1", "x">>}

ChainIdValues == {0, 25, U64Max}

Commons ==
    [nonce : DecTexts, gas_limit : {<<>>, <<"7">>, <<"1", "x">>},
     gas_price : {<<>>, <<"1", "2">>, <<"1", "x">>}, chainid : ChainIdValues]

SignerAddress == "a1"

AddressLen == 20

\* Address::from_str: an optional 0x, then exactly 40 hexadecimal characters
address_from_str(text) ==
    LET body == IF Len(text) >= 2 /\ text[1] = "0" /\ text[2] = "x"
                THEN Tail_(text, 3) ELSE text
    IN  IF Len(body) = 2 * AddressLen /\ \A i \in 1..Len(body) : IsHex(body[i])
        THEN [ok |-> TRUE, val |-> HexBytes(body)]
        ELSE [ok |-> FALSE, val |-> <<>>]

\* the recipient texts a caller passes: unset, an address with and without
\* 0x, a short text and a text that is not hexadecimal
ToTexts ==
    { <<>>,
      [i \in 1..(2 * AddressLen) |-> "a"],
      <<"0", "x">> \o [i \in 1..(2 * AddressLen) |-> "1"],
      [i \in 1..(2 * AddressLen - 1) |-> "a"],
      [i \in 1..(2 * AddressLen) |-> IF i = 3 THEN "g" ELSE "a"] }

\* the WalletConnectTxEip155 fields beside common
Userinfos ==
    [to : ToTexts, data : {<<>>, <<1, 2>>}, value : {<<>>, <<"7">>, <<"1", "x">>}]

NoUserinfo == [to |-> <<>>, data |-> <<>>, value |-> <<>>]

\* a fee-market typed transaction; every field is optional
TypedTx(nonce, chain_id, gas, fee, tip, from) ==
    [nonce |-> nonce, chain_id |-> chain_id, gas |-> gas,
     max_fee_per_gas |-> fee, max_priority_fee_per_gas |-> tip, from |-> from,
     to |-> None, data |-> None, value |-> None]

NoTx == TypedTx(None, None, None, None, None, None)

\* construct_contract_approval_tx / construct_contract_transfer_tx for the
\* custom network of the given chain id: the transactions construction may
\* return, with the fields it computed or left unset
Constructed(chainid) ==
    { TypedTx(n, c, g, None, None, None) :
        n \in {None, Some(5)}, c \in {None, Some(chainid)}, g \in {None, Some(21)} }

\* the text of a transaction request: its members, name and value, between
\* braces; a field that is unset has no member
TxFields ==
    <<"nonce", "chain_id", "gas", "max_fee_per_gas", "max_priority_fee_per_gas",
      "from", "to", "data", "value">>

TxJson(tx) ==
    <<"{">> \o
    [k \in 1..Len(SelectSeq(TxFields, LAMBDA f : tx[f] # None)) |->
        LET f == SelectSeq(TxFields, LAMBDA g : tx[g] # None)[k]
        IN  <<f, tx[f][1]>>] \o
    <<"}">>

\* serde_json::from_str::<Eip1559TransactionRequest>: the text must be an
\* object; each field is the value of its member, or unset without one
ParseRequest(text) ==
    IF /\ Len(text) >= 2
       /\ text[1] = "{"
       /\ text[Len(text)] = "}"
       /\ \A i \in 2..(Len(text) - 1) :
              /\ \E k \in 1..Len(TxFields) : TxFields[k] = text[i][1]
              /\ \A j \in 2..(Len(text) - 1) : text[j][1] = text[i][1] => j = i
    THEN [ok |-> TRUE,
          tx |-> [f \in DOMAIN NoTx |->
                    IF \E i \in 2..(Len(text) - 1) : text[i][1] = f
                    THEN Some(text[CHOOSE i \in 2..(Len(text) - 1) : text[i][1] = f][2])
                    ELSE None]]
    ELSE [ok |-> FALSE, tx |-> NoTx]

\* the request texts a caller passes to sign_transaction / send_transaction
Requests ==
    { <<>>, <<"not json">>, TxJson(NoTx),
      TxJson([TypedTx(Some(3), Some(25), Some(21), Some(12), Some(12), None)
                 EXCEPT !.to = Some("a2"), !.value = Some(7)]) }

----------------------------------------------------------------------------
\* The requests a client makes to its peer

\* Client::personal_sign, WCMiddleware::sign_transaction and
\* WCMiddleware::send_transaction: without a connected session the request
\* fails and the peer is not asked; with one the peer is asked and answers,
\* declines, or is gone before it answers
ClientRequest(st, kind) ==
    IF st # "Connected"
    THEN {[ok |-> FALSE, error |-> "no session", asked |-> <<>>, peer |-> "none"]}
    ELSE {[ok |-> TRUE, error |-> "", asked |-> <<kind>>, peer |-> "answered"],
          [ok |-> FALSE, error |-> "rejected", asked |-> <<kind>>, peer |-> "rejected"],
          [ok |-> FALSE, error |-> "disconnected", asked |-> <<kind>>,
           peer |-> "disconnected"]}

\* sign_typed_tx
sign_typed_tx(st) == ClientRequest(st, "sign")

\* send_typed_tx
send_typed_tx(st) == ClientRequest(st, "send")

\* how an operation of the wrapper ends: whether it returned bytes, the error
\* it returned otherwise, the transaction as constructed and as handed on,
\* the requests it made, what the peer did with the request, and the
\* executors of the block_on calls it made
Result(ok, error, b, tx, eff) ==
    [ok |-> ok, error |-> error, built |-> b, tx |-> tx, effects |-> eff,
     peer |-> "none", on |-> <<>>]

\* a faulty signing step that may fill an unset nonce with a number of its own
\* before it hands the transaction on
SignOutcomesFillsNonce(st, b, tx, eff) ==
    { [Result(p.ok,
              IF p.ok THEN <<>> ELSE <<"sign_typed_transaction error", p.error>>,
              b, t, eff \o p.asked) EXCEPT !.peer = p.peer, !.on = block_on(<<>>)]
      : p \in sign_typed_tx(st),
        t \in {tx} \cup (IF tx.nonce = None THEN {[tx EXCEPT !.nonce = Some(9)]} ELSE {}) }

\* .map_err(|e| anyhow!("sign_typed_transaction error {}", e.to_string()))
SignOutcomes(st, b, tx, eff) ==
    { [Result(p.ok,
              IF p.ok THEN <<>> ELSE <<"sign_typed_transaction error", p.error>>,
              b, tx, eff \o p.asked) EXCEPT !.peer = p.peer, !.on = block_on(<<>>)] : p \in sign_typed_tx(st) }

\* a faulty mapping that reports every error of the send request alike
SendOutcomesOneError(st, b, tx, eff) ==
    { [Result(p.ok,
              IF p.ok THEN <<>> ELSE <<"send_typed_transaction error", "failed">>,
              b, tx, eff \o p.asked) EXCEPT !.peer = p.peer, !.on = block_on(<<>>)] : p \in send_typed_tx(st) }

\* .map_err(|e| anyhow!("send_typed_transaction error {}", e.to_string()))
SendOutcomes(st, b, tx, eff) ==
    { [Result(p.ok,
              IF p.ok THEN <<>> ELSE <<"send_typed_transaction error", p.error>>,
              b, tx, eff \o p.asked) EXCEPT !.peer = p.peer, !.on = block_on(<<>>)] : p \in send_typed_tx(st) }

----------------------------------------------------------------------------
\* walletconnect.rs: sign_personal_blocking

\* a faulty sign_personal_blocking that returns an empty signature when the
\* wrapper holds no client
sign_personal_blocking_unchecked(cl, st) ==
    IF cl = "None" THEN {Result(TRUE, <<>>, NoTx, NoTx, <<>>)}
    ELSE { [Result(p.ok,
                   IF p.ok THEN <<>> ELSE <<"sign_personal error", p.error>>,
                   NoTx, NoTx, p.asked) EXCEPT !.peer = p.peer, !.on = block_on(<<>>)]
           : p \in ClientRequest(st, "personal_sign") }

sign_personal_blocking(cl, st) ==
    IF cl = "None" THEN {Result(FALSE, <<"no client">>, NoTx, NoTx, <<>>)}
    ELSE { [Result(p.ok,
                   IF p.ok THEN <<>> ELSE <<"sign_personal error", p.error>>,
                   NoTx, NoTx, p.asked) EXCEPT !.peer = p.peer, !.on = block_on(<<>>)]
           : p \in ClientRequest(st, "personal_sign") }

----------------------------------------------------------------------------
\* walletconnect.rs: the eip155 operations; each builds its transaction from
\* userinfo, field by field, and fails at the first text that does not parse

sign_eip155_tx(u, c) ==
    LET to == address_from_str(u.to)
        t1 == IF u.to # <<>> THEN [NoTx EXCEPT !.to = Some(to.val)] ELSE NoTx
        t2 == IF u.data # <<>> THEN [t1 EXCEPT !.data = Some(u.data)] ELSE t1
        gas == from_dec_str(c.gas_limit)
        t3 == IF c.gas_limit # <<>> THEN [t2 EXCEPT !.gas = Some(gas.val)] ELSE t2
        price == from_dec_str(c.gas_price)
        t4 == IF c.gas_price # <<>>
              THEN [t3 EXCEPT !.max_priority_fee_per_gas = Some(price.val),
                              !.max_fee_per_gas = Some(price.val)]
              ELSE t3
        nonce == from_dec_str(c.nonce)
        t5 == IF c.nonce # <<>> THEN [t4 EXCEPT !.nonce = Some(nonce.val)] ELSE t4
        t6 == IF BitNot(c.chainid) = 0 THEN [t5 EXCEPT !.chain_id = Some(c.chainid)]
              ELSE t5
        value == from_dec_str(u.value)
        t7 == IF u.value # <<>> THEN [t6 EXCEPT !.value = Some(value.val)] ELSE t6
    IN  IF u.to # <<>> /\ ~to.ok THEN [ok |-> FALSE, error |-> <<"invalid address">>, tx |-> NoTx]
        ELSE IF c.gas_limit # <<>> /\ ~gas.ok
             THEN [ok |-> FALSE, error |-> <<"invalid decimal">>, tx |-> t2]
        ELSE IF c.gas_price # <<>> /\ ~price.ok
             THEN [ok |-> FALSE, error |-> <<"invalid decimal">>, tx |-> t3]
        ELSE IF c.nonce # <<>> /\ ~nonce.ok
             THEN [ok |-> FALSE, error |-> <<"invalid decimal">>, tx |-> t4]
        ELSE IF u.value # <<>> /\ ~value.ok
             THEN [ok |-> FALSE, error |-> <<"invalid decimal">>, tx |-> t6]
        ELSE [ok |-> TRUE, error |-> <<>>, tx |-> t7]

\* a faulty send path that leaves the call data out of its transaction
send_eip155_tx_without_data(u, c) ==
    LET r == sign_eip155_tx(u, c)
    IN  [r EXCEPT !.tx = [r.tx EXCEPT !.data = None]]

send_eip155_tx(u, c) ==
    LET to == address_from_str(u.to)
        t1 == IF u.to # <<>> THEN [NoTx EXCEPT !.to = Some(to.val)] ELSE NoTx
        t2 == IF u.data # <<>> THEN [t1 EXCEPT !.data = Some(u.data)] ELSE t1
        gas == from_dec_str(c.gas_limit)
        t3 == IF c.gas_limit # <<>> THEN [t2 EXCEPT !.gas = Some(gas.val)] ELSE t2
        price == from_dec_str(c.gas_price)
        t4 == IF c.gas_price # <<>>
              THEN [t3 EXCEPT !.max_priority_fee_per_gas = Some(price.val),
                              !.max_fee_per_gas = Some(price.val)]
              ELSE t3
        nonce == from_dec_str(c.nonce)
        t5 == IF c.nonce # <<>> THEN [t4 EXCEPT !.nonce = Some(nonce.val)] ELSE t4
        t6 == IF BitNot(c.chainid) = 0 THEN [t5 EXCEPT !.chain_id = Some(c.chainid)]
              ELSE t5
        value == from_dec_str(u.value)
        t7 == IF u.value # <<>> THEN [t6 EXCEPT !.value = Some(value.val)] ELSE t6
    IN  IF u.to # <<>> /\ ~to.ok THEN [ok |-> FALSE, error |-> <<"invalid address">>, tx |-> NoTx]
        ELSE IF c.gas_limit # <<>> /\ ~gas.ok
             THEN [ok |-> FALSE, error |-> <<"invalid decimal">>, tx |-> t2]
        ELSE IF c.gas_price # <<>> /\ ~price.ok
             THEN [ok |-> FALSE, error |-> <<"invalid decimal">>, tx |-> t3]
        ELSE IF c.nonce # <<>> /\ ~nonce.ok
             THEN [ok |-> FALSE, error |-> <<"invalid decimal">>, tx |-> t4]
        ELSE IF u.value # <<>> /\ ~value.ok
             THEN [ok |-> FALSE, error |-> <<"invalid decimal">>, tx |-> t6]
        ELSE [ok |-> TRUE, error |-> <<>>, tx |-> t7]

sign_eip155_transaction_blocking(cl, st, u, c) ==
    IF cl = "None" THEN {Result(FALSE, <<"no client">>, NoTx, NoTx, <<>>)}
    ELSE LET r == sign_eip155_tx(u, c)
         IN  IF ~r.ok THEN {Result(FALSE, r.error, NoTx, r.tx, <<>>)}
             ELSE SignOutcomes(st, NoTx, r.tx, <<>>)

send_eip155_transaction_blocking(cl, st, u, c) ==
    IF cl = "None" THEN {Result(FALSE, <<"no client">>, NoTx, NoTx, <<>>)}
    ELSE LET r == send_eip155_tx(u, c)
         IN  IF ~r.ok THEN {Result(FALSE, r.error, NoTx, r.tx, <<>>)}
             ELSE SendOutcomes(st, NoTx, r.tx, <<>>)

----------------------------------------------------------------------------
\* walletconnect.rs: sign_transaction / send_transaction

sign_transaction(cl, st, eip1559_transaction_request) ==
    IF cl = "None" THEN {Result(FALSE, <<"no client">>, NoTx, NoTx, <<>>)}
    ELSE LET r == ParseRequest(eip1559_transaction_request)
         IN  IF ~r.ok THEN {Result(FALSE, <<"invalid json">>, NoTx, NoTx, <<>>)}
             ELSE SignOutcomes(st, NoTx, r.tx, <<>>)

send_transaction(cl, st, eip1559_transaction_request) ==
    IF cl = "None" THEN {Result(FALSE, <<"no client">>, NoTx, NoTx, <<>>)}
    ELSE LET r == ParseRequest(eip1559_transaction_request)
         IN  IF ~r.ok THEN {Result(FALSE, <<"invalid json">>, NoTx, NoTx, <<>>)}
             ELSE SendOutcomes(st, NoTx, r.tx, <<>>)

----------------------------------------------------------------------------
\* walletconnect.rs: the overrides of common that get_signed_tx_raw_bytes and
\* get_sent_tx_raw_bytes apply to the typed transaction before the request to
\* the peer, or an error when a text is not a number

\* TypedTransaction::set_gas_price on a fee-market transaction
set_gas_price(tx, price) ==
    [tx EXCEPT !.max_fee_per_gas = Some(price), !.max_priority_fee_per_gas = Some(price)]

get_signed_tx_raw_bytes(tx0, signeraddress, c) ==
    LET mynonce == from_dec_str(c.nonce)
        t1 == IF mynonce.val # 0 THEN [tx0 EXCEPT !.nonce = Some(mynonce.val)]
              ELSE tx0
        t2 == [t1 EXCEPT !.from = Some(signeraddress)]
        t3 == IF BitNot(c.chainid) = 0 THEN [t2 EXCEPT !.chain_id = Some(c.chainid)]
              ELSE t2
        gas == from_dec_str(c.gas_limit)
        t4 == IF c.gas_limit # <<>> THEN [t3 EXCEPT !.gas = Some(gas.val)] ELSE t3
        price == from_dec_str(c.gas_price)
        t5 == IF c.gas_price # <<>> THEN set_gas_price(t4, price.val) ELSE t4
    IN  IF ~mynonce.ok THEN [ok |-> FALSE, tx |-> tx0]
        ELSE IF c.gas_limit # <<>> /\ ~gas.ok THEN [ok |-> FALSE, tx |-> t3]
        ELSE IF c.gas_price # <<>> /\ ~price.ok THEN [ok |-> FALSE, tx |-> t4]
        ELSE [ok |-> TRUE, tx |-> t5]

get_sent_tx_raw_bytes(tx0, signeraddress, c) ==
    LET mynonce == from_dec_str(c.nonce)
        t1 == IF mynonce.val # 0 THEN [tx0 EXCEPT !.nonce = Some(mynonce.val)]
              ELSE tx0
        t2 == [t1 EXCEPT !.from = Some(signeraddress)]
        t3 == IF BitNot(c.chainid) = 0 THEN [t2 EXCEPT !.chain_id = Some(c.chainid)]
              ELSE t2
        gas == from_dec_str(c.gas_limit)
        t4 == IF c.gas_limit # <<>> THEN [t3 EXCEPT !.gas = Some(gas.val)] ELSE t3
        price == from_dec_str(c.gas_price)
        t5 == IF c.gas_price # <<>> THEN set_gas_price(t4, price.val) ELSE t4
    IN  IF ~mynonce.ok THEN [ok |-> FALSE, tx |-> tx0]
        ELSE IF c.gas_limit # <<>> /\ ~gas.ok THEN [ok |-> FALSE, tx |-> t3]
        ELSE IF c.gas_price # <<>> /\ ~price.ok THEN [ok |-> FALSE, tx |-> t4]
        ELSE [ok |-> TRUE, tx |-> t5]

\* sign_contract_transaction: without a client it fails; the action text is
\* parsed, the transaction constructed through web3api_url, the overrides of
\* common applied and the peer asked to sign
sign_contract_transaction(cl, st, action_ok, c) ==
    IF cl = "None" THEN {Result(FALSE, <<"no client">>, NoTx, NoTx, <<>>)}
    ELSE IF ~action_ok THEN {Result(FALSE, <<"invalid json">>, NoTx, NoTx, <<>>)}
    ELSE {[Result(FALSE, <<"construction failed">>, NoTx, NoTx, <<"web3">>)
              EXCEPT !.on = block_on(<<>>)]} \cup
         UNION { LET r == get_signed_tx_raw_bytes(b, SignerAddress, c)
                 IN  IF ~r.ok
                     THEN {[Result(FALSE, <<"invalid decimal">>, b, r.tx, <<"web3">>)
                               EXCEPT !.on = block_on(<<>>)]}
                     ELSE { [o EXCEPT !.on = block_on(<<>>) \o @]
                            : o \in SignOutcomes(st, b, r.tx, <<"web3">>) }
                 : b \in Constructed(c.chainid) }

\* send_contract_transaction: the same steps, and the peer asked to send
send_contract_transaction(cl, st, action_ok, c) ==
    IF cl = "None" THEN {Result(FALSE, <<"no client">>, NoTx, NoTx, <<>>)}
    ELSE IF ~action_ok THEN {Result(FALSE, <<"invalid json">>, NoTx, NoTx, <<>>)}
    ELSE {[Result(FALSE, <<"construction failed">>, NoTx, NoTx, <<"web3">>)
              EXCEPT !.on = block_on(<<>>)]} \cup
         UNION { LET r == get_sent_tx_raw_bytes(b, SignerAddress, c)
                 IN  IF ~r.ok
                     THEN {[Result(FALSE, <<"invalid decimal">>, b, r.tx, <<"web3">>)
                               EXCEPT !.on = block_on(<<>>)]}
                     ELSE { [o EXCEPT !.on = block_on(<<>>) \o @]
                            : o \in SendOutcomes(st, b, r.tx, <<"web3">>) }
                 : b \in Constructed(c.chainid) }

----------------------------------------------------------------------------
\* Transaction pipeline: state machine

TxStart ==
    /\ common \in Commons
    /\ userinfo = NoUserinfo
    /\ request = <<>>
    /\ op = "none"
    /\ built = NoTx
    /\ typedtx = NoTx
    /\ effects = <<>>
    /\ tres = "none"
    /\ terror = <<>>
    /\ peer = "none"

\* the operation named o returns what r tells
Returns(o, r) ==
    /\ op' = o
    /\ built' = r.built
    /\ typedtx' = r.tx
    /\ effects' = r.effects
    /\ tres' = IF r.ok THEN "ok" ELSE "err"
    /\ terror' = r.error
    /\ peer' = r.peer

\* the operation named o runs from its call to its return as r tells
Ends(o, r) ==
    /\ Returns(o, r)
    /\ ran' = ran \o r.on

\* ensure_session_blocking as one blocking call, from its start to its return
EnsureSessionBlocking ==
    /\ op = "none"
    /\ \E t \in IF client = "None" THEN {NoTuple} ELSE ClientEnsureSession(state, session) :
          LET e == ensure_session_blocking(client # "None", t)
          IN  Ends("ensure_session_blocking",
                   [Result(e.st = "ok", e.error, NoTx, NoTx, <<>>)
                       EXCEPT !.peer = IF client = "None" THEN "none" ELSE t.peer,
                              !.on = IF client = "None" THEN <<>> ELSE block_on(<<>>)])
    /\ UNCHANGED <<common, userinfo, request, notTx>>

SignPersonalBlocking ==
    /\ op = "none"
    /\ \E r \in sign_personal_blocking(client, state) :
          Ends("sign_personal_blocking", r)
    /\ UNCHANGED <<common, userinfo, request, notTx>>

SignEip155TransactionBlocking ==
    /\ op = "none"
    /\ \E u \in Userinfos :
          /\ userinfo' = u
          /\ \E r \in sign_eip155_transaction_blocking(client, state, u, common) :
                Ends("sign_eip155_transaction_blocking", r)
    /\ UNCHANGED <<common, request, notTx>>

SendEip155TransactionBlocking ==
    /\ op = "none"
    /\ \E u \in Userinfos :
          /\ userinfo' = u
          /\ \E r \in send_eip155_transaction_blocking(client, state, u, common) :
                Ends("send_eip155_transaction_blocking", r)
    /\ UNCHANGED <<common, request, notTx>>

SignTransaction ==
    /\ op = "none"
    /\ \E q \in Requests :
          /\ request' = q
          /\ \E r \in sign_transaction(client, state, q) : Ends("sign_transaction", r)
    /\ UNCHANGED <<common, userinfo, notTx>>

SendTransaction ==
    /\ op = "none"
    /\ \E q \in Requests :
          /\ request' = q
          /\ \E r \in send_transaction(client, state, q) : Ends("send_transaction", r)
    /\ UNCHANGED <<common, userinfo, notTx>>

SignContractTransaction ==
    /\ op = "none"
    /\ \E action_ok \in BOOLEAN :
          \E r \in sign_contract_transaction(client, state, action_ok, common) :
              Ends("sign_contract_transaction", r)
    /\ UNCHANGED <<common, userinfo, request, notTx>>

SendContractTransaction ==
    /\ op = "none"
    /\ \E action_ok \in BOOLEAN :
          \E r \in send_contract_transaction(client, state, action_ok, common) :
              Ends("send_contract_transaction", r)
    /\ UNCHANGED <<common, userinfo, request, notTx>>

----------------------------------------------------------------------------
\* sign_transaction / send_transaction, call and return apart: the callers
\* are threads of the host program that hold the same wrapper

Callers == {"t1", "t2"}

\* a faulty block_on that returns while the request is still with the peer
block_on_returns_early(requests, caller) == requests

\* rt.block_on(sign_typed_tx(..)) / rt.block_on(send_typed_tx(..)) returns when
\* the future has completed, and nothing keeps the request after that: the
\* join of the request is the return of the call
block_on_returns(requests, caller) == { f \in requests : f.caller # caller }

\* a method that takes &mut self starts only when no other call on the
\* wrapper is running; it parses the request text and hands the transaction
\* and a clone of the client to the request
Called(t, o, q, r) ==
    /\ pending = {}
    /\ Len(ran) < MaxRan
    /\ pending' = {[caller |-> t, op |-> o, request |-> q, result |-> r]}
    /\ inflight' = inflight \cup { [caller |-> t, kind |-> r.effects[i]] :
                                     i \in 1..Len(r.effects) }
    /\ ran' = ran \o r.on
    /\ UNCHANGED <<txVars, sessionVars, cryptoVars, deriveVars, persistVars>>

SignTransactionCalled ==
    \E t \in Callers, q \in Requests :
        \E r \in sign_transaction(client, state, q) : Called(t, "sign_transaction", q, r)

SendTransactionCalled ==
    \E t \in Callers, q \in Requests :
        \E r \in send_transaction(client, state, q) : Called(t, "send_transaction", q, r)

\* the call returns its bytes or its error to its caller
Returned ==
    \E p \in pending :
        /\ pending' = pending \ {p}
        /\ inflight' = block_on_returns(inflight, p.caller)
        /\ request' = p.request
        /\ Returns(p.op, p.result)
        /\ UNCHANGED <<common, userinfo, ran, cryptoVars, deriveVars, sessionVars,
                       persistVars>>

----------------------------------------------------------------------------
\* Specifications

TxRest ==
    /\ common = [nonce |-> <<>>, gas_limit |-> <<>>, gas_price |-> <<>>, chainid |-> 0]
    /\ userinfo = NoUserinfo
    /\ request = <<>>
    /\ op = "none"
    /\ built = NoTx
    /\ typedtx = NoTx
    /\ effects = <<>>
    /\ tres = "none"
    /\ terror = <<>>
    /\ peer = "none"

\* no call on the wrapper has been made
RunRest == ran = <<>> /\ pending = {} /\ inflight = {}

InitCrypto == CryptoStart /\ DeriveRest /\ SessionStart /\ PersistRest /\ TxRest /\ RunRest

NextCrypto ==
    \/ EncryptAndEncode
    \/ FlipEnvelopeBit
    \/ TruncateEnvelope
    \/ GarbleEnvelope
    \/ OtherKey
    \/ DecodeDecrypt

SpecCrypto == InitCrypto /\ [][NextCrypto]_vars

\* successive encrypt_and_encode calls under one key
NextNonce ==
    \/ EncryptAndEncode
    \/ EncryptAndEncodeAgain

SpecNonce == InitCrypto /\ [][NextNonce]_vars

CryptoRest ==
    /\ key = <<>>
    /\ data = <<>>
    /\ envelope = <<>>
    /\ input = <<>>
    /\ tamper = NoTamper
    /\ outcome = Err
    /\ cpc = "start"
    /\ drawn = <<>>

InitSession == SessionStart /\ CryptoRest /\ DeriveRest /\ PersistRest /\ TxRest /\ RunRest

NextSession ==
    \/ WalletconnectNewClient
    \/ WalletconnectRestoreClient
    \/ SetupCallbackBlocking
    \/ PeerOpens
    \/ PeerApproves
    \/ PeerRejects
    \/ PeerUpdates
    \/ PeerDisconnects
    \/ ChannelCloses
    \/ Dispatch
    \/ EnsureSessionCall
    \/ EnsureSessionReturns
    \/ EnsureSessionFails

SpecSession == InitSession /\ [][NextSession]_vars

\* a client restored with a connected session, and nothing else done
SessionConnected ==
    /\ client = "Some"
    /\ rt = "runtime"
    /\ origin = "restored"
    /\ state = "Connected"
    /\ session = SessionInfo(TRUE, Some(25), <<"a1">>, None)
    /\ channel = "open"
    /\ observers = <<>>
    /\ setups = <<>>
    /\ events = <<>>
    /\ emitted = <<>>
    /\ calls = <<>>
    /\ errs = {}
    /\ ens = NoResult

\* a new client waiting for its peer, and nothing else done
SessionPairing ==
    /\ client = "Some"
    /\ rt = "runtime"
    /\ origin = "new"
    /\ state = ClientNew(Some(25)).state
    /\ session = ClientNew(Some(25)).session
    /\ channel = "open"
    /\ observers = <<>>
    /\ setups = <<>>
    /\ events = <<>>
    /\ emitted = <<>>
    /\ calls = <<>>
    /\ errs = {}
    /\ ens = NoResult

InitTx ==
    /\ TxStart /\ CryptoRest /\ DeriveRest /\ PersistRest /\ RunRest
    /\ SessionStart \/ SessionPairing \/ SessionConnected

NextTx ==
    \/ EnsureSessionBlocking
    \/ SignPersonalBlocking
    \/ SignEip155TransactionBlocking
    \/ SendEip155TransactionBlocking
    \/ SignTransaction
    \/ SendTransaction
    \/ SignContractTransaction
    \/ SendContractTransaction

SpecTx == InitTx /\ [][NextTx]_vars

InitDerive == DeriveStart /\ CryptoRest /\ SessionStart /\ PersistRest /\ TxRest /\ RunRest

NextDerive == DeriveSymkeyTopic

SpecDerive == InitDerive /\ [][NextDerive]_vars

\* a client is made and lives its life; it is saved in some state, and a
\* text is restored
InitPersist == InitSession

NextPersist ==
    \/ WalletconnectNewClient
    \/ PeerOpens
    \/ PeerApproves
    \/ PeerRejects
    \/ PeerUpdates
    \/ PeerDisconnects
    \/ SaveClient
    \/ RestoreClient

SpecPersist == InitPersist /\ [][NextPersist]_vars

\* every blocking operation of one wrapper, on a client in any of its states
InitRuntime ==
    /\ TxRest /\ CryptoRest /\ DeriveRest /\ PersistRest /\ RunRest
    /\ SessionStart \/ SessionPairing \/ SessionConnected

NextRuntime ==
    \/ SignPersonalBlocking
    \/ SetupCallbackBlocking
    \/ EnsureSessionBlocking
    \/ GetConnectionString
    \/ SaveClient
    \/ PrintUri
    \/ SignEip155TransactionBlocking
    \/ SendEip155TransactionBlocking
    \/ SignTransaction
    \/ SendTransaction
    \/ SignContractTransaction
    \/ SendContractTransaction

SpecRuntime == InitRuntime /\ [][NextRuntime]_vars

\* sign_transaction and send_transaction called by the threads of the host
NextFlight ==
    \/ SignTransactionCalled
    \/ SendTransactionCalled
    \/ Returned

SpecFlight == InitRuntime /\ [][NextFlight]_vars

\* the runtime resumes a blocked ensure_session call when it can proceed
SpecSessionFair ==
    /\ SpecSession
    /\ WF_vars(EnsureSessionReturns)
    /\ WF_vars(EnsureSessionFails)

----------------------------------------------------------------------------
\* C1: decoding under the same key what encrypt_and_encode returned, as it
\* was returned, succeeds and gives back exactly the plaintext.
C1_RoundTrip ==
    cpc = "decoded" /\ tamper = NoTamper => outcome = Ok(data)

C1_Witness ==
    cpc = "decoded" /\ tamper = NoTamper /\ Len(data) > 0 /\ outcome = Ok(data)

\* C2 as stated: after any single bit of the decoded envelope is flipped
\* (version byte, nonce, ciphertext or tag), decode_decrypt fails.
C2_AnyBitFlipFails ==
    cpc = "decoded" /\ tamper.kind = "flip" => outcome.kind = "Err"

\* C2 as amended: a flipped bit in the nonce, the ciphertext or the tag makes
\* decode_decrypt fail; a flipped bit in the version byte, which decode_decrypt
\* does not read, leaves the result the original plaintext.  A plaintext other
\* than the original is never returned.
C2_TamperDetection ==
    cpc = "decoded" /\ tamper.kind = "flip" =>
        IF tamper.pos = 1 THEN outcome = Ok(data) ELSE outcome = Err

C2_Witness ==
    /\ cpc = "decoded" /\ tamper.kind = "flip"
    /\ tamper.pos > 1 + NonceLen /\ tamper.pos <= 1 + NonceLen + Len(data)
    /\ outcome = Err

\* C3 as stated: a valid base64 text that decodes to fewer than 13 bytes
\* makes decode_decrypt return a failure; it is neither accepted nor a panic.
C3_ShortInputFails ==
    cpc = "decoded" /\ tamper.kind = "trunc" /\ tamper.pos < 1 + NonceLen =>
        outcome = Err

\* C4 as stated: no session information with connected = true and no
\* accounts reaches an observer method, and ensure_session never returns the
\* accounts of a connected session empty.
C4_ConnectedHasAccounts ==
    /\ \A i \in 1..Len(calls) :
          ~(calls[i].info.connected /\ calls[i].info.accounts = <<>>)
    /\ ens.st = "ok" => ens.addresses # <<>>

\* the method the event's state stands for
C_MethodFor(msgstate) ==
    IF msgstate = "Connecting" THEN "onConnecting"
    ELSE IF msgstate = "Connected" THEN "onConnected"
    ELSE IF msgstate = "Disconnected" THEN "onDisconnected"
    ELSE "onUpdated"

\* the number of events the dispatcher has taken
C_Consumed == Len(emitted) - Len(events)

\* an event whose handling succeeds: it carries a session that converts
C_Deliverable(message) ==
    message.session # None /\ message.session[1].peer_meta # Some("bad")

C6_OncePerEvent ==
    /\ Len(calls) = C_Consumed
    /\ \A i \in 1..Len(calls) :
          calls[i].event = i /\ calls[i].method = C_MethodFor(emitted[i].state)

\* C6 as amended: the observer is invoked exactly once for every event taken
\* that carries a session that converts, in the order of the events, with the
\* method of the event's state; an event without a session, or whose session
\* does not convert, invokes nothing.
C6_OncePerDeliverableEvent ==
    LET taken == [i \in 1..C_Consumed |-> i]
        expected == SelectSeq(taken, LAMBDA i : C_Deliverable(emitted[i]))
    IN  /\ Len(calls) = Len(expected)
        /\ \A k \in 1..Len(calls) :
              /\ calls[k].event = expected[k]
              /\ calls[k].method = C_MethodFor(emitted[expected[k]].state)

C6_Witness ==
    /\ Len(calls) >= 2
    /\ calls[1].method # calls[2].method
    /\ errs # {}
    /\ events = <<>>

\* C7: an event whose handling fails invokes no observer method and is
\* reported as an error; every event taken after it that can be handled is
\* delivered; and while events wait the dispatcher can take the next one.
C7_FailureIsolated ==
    /\ \A i \in 1..C_Consumed :
          IF C_Deliverable(emitted[i])
          THEN i \notin errs /\ \E k \in 1..Len(calls) : calls[k].event = i
          ELSE i \in errs /\ \A k \in 1..Len(calls) : calls[k].event # i
    /\ events # <<>> => ENABLED Dispatch

C7_Witness ==
    \E i, j \in 1..C_Consumed :
        /\ i < j
        /\ i \in errs
        /\ \E k \in 1..Len(calls) : calls[k].event = j

\* C8: after two registrations on one client no event is delivered to both
\* observers: at most one observer is registered at a time, and every event
\* invokes at most one observer.
C8_NoFanOut ==
    /\ Len(observers) <= 1
    /\ \A i, j \in 1..Len(calls) :
          calls[i].event = calls[j].event => calls[i].observer = calls[j].observer

C8_Witness ==
    /\ Len(setups) = 2 /\ setups[1] = "ok" /\ setups[2] = "ok"
    /\ \E i, j \in 1..Len(calls) : calls[i].observer = 1 /\ calls[j].observer = 2

\* C9: called on a connected client, ensure_session returns the session's
\* accounts and chain id in the same step; a waiting call returns them only
\* once the client is Connected, and ends otherwise only when the pairing has
\* failed or the channel is closed; and a call waiting when the channel is
\* closed before the session is established eventually returns a failure.
C9_EnsureSession ==
    /\ [][ /\ ens.st = "idle" /\ ens'.st # "idle" /\ state = "Connected" =>
                 ens' = [st |-> "ok", addresses |-> session.accounts,
                         chain_id |-> IF session.chain_id = None THEN 0
                                      ELSE session.chain_id[1],
                         error |-> <<>>]
           /\ ens.st # "ok" /\ ens'.st = "ok" =>
                 state = "Connected" /\ ens'.addresses = session.accounts
           /\ ens.st = "waiting" /\ ens'.st = "failed" =>
                 state = "Disconnected" \/ channel = "closed" ]_vars
    /\ (ens.st = "waiting" /\ channel = "closed" /\ state # "Connected")
          ~> (ens.st = "failed")

C9_Witness ==
    ens.st = "failed" /\ channel = "closed" /\ state = "AwaitingApproval"

\* C10 as stated: when a contract action is signed or sent, every value given
\* in common (a nonce text, a nonzero chain id, a gas limit, a gas price) is
\* the value the transaction carries.
C10_ExplicitValuesWin ==
    tres = "ok" /\ op \in {"sign_contract_transaction", "send_contract_transaction"} =>
        /\ common.nonce # <<>> => typedtx.nonce = Some(from_dec_str(common.nonce).val)
        /\ common.chainid # 0 => typedtx.chain_id = Some(common.chainid)
        /\ common.gas_limit # <<>> =>
              typedtx.gas = Some(from_dec_str(common.gas_limit).val)
        /\ common.gas_price # <<>> =>
              typedtx.max_fee_per_gas = Some(from_dec_str(common.gas_price).val)

\* the errors a malformed input is reported with
C_MalformedInput ==
    {<<"invalid decimal">>, <<"invalid address">>, <<"invalid json">>}

\* C11 as stated: an operation that ends with a malformed-input error (a text
\* that is not a decimal number, a bad recipient address, an action or request
\* text that does not parse) has made no network request and no request to the
\* peer before it.
C11_MalformedBeforeRequests ==
    tres = "err" /\ terror \in C_MalformedInput => effects = <<>>

\* an operation that handed its transaction to the request to the peer
C_Handed(ok, error) == ok \/ Len(error) = 2

\* C12: for the same client, inputs and signer address, the transaction the
\* send path hands to its request is, field for field, the one the sign path
\* hands to its request, for the eip155 operations, the request-text
\* operations and the contract operations alike.
C12_SendEqualsSign ==
    tres # "none" /\ C_Handed(tres = "ok", terror) =>
        /\ op = "sign_eip155_transaction_blocking" =>
              \E r \in send_eip155_transaction_blocking(client, state, userinfo, common) :
                  C_Handed(r.ok, r.error) /\ r.tx = typedtx
        /\ op = "send_eip155_transaction_blocking" =>
              \E r \in sign_eip155_transaction_blocking(client, state, userinfo, common) :
                  C_Handed(r.ok, r.error) /\ r.tx = typedtx
        /\ op = "sign_transaction" =>
              \E r \in send_transaction(client, state, request) :
                  C_Handed(r.ok, r.error) /\ r.tx = typedtx
        /\ op = "send_transaction" =>
              \E r \in sign_transaction(client, state, request) :
                  C_Handed(r.ok, r.error) /\ r.tx = typedtx
        /\ op = "sign_contract_transaction" =>
              \E r \in send_contract_transaction(client, state, TRUE, common) :
                  C_Handed(r.ok, r.error) /\ r.built = built /\ r.tx = typedtx
        /\ op = "send_contract_transaction" =>
              \E r \in sign_contract_transaction(client, state, TRUE, common) :
                  C_Handed(r.ok, r.error) /\ r.built = built /\ r.tx = typedtx

C12_Witness ==
    /\ op = "send_eip155_transaction_blocking" /\ tres = "ok"
    /\ typedtx.to # None /\ typedtx.data # None /\ typedtx.value # None
    /\ typedtx.nonce # None /\ typedtx.gas # None

\* a text that stands for exactly 32 bytes: 64 hexadecimal characters
C_Is32Bytes(text) ==
    /\ Len(text) = 64
    /\ \A i \in 1..Len(text) :
          text[i] \in {"0", "1", "2", "3", "4", "5", "6", "7", "8", "9",
                       "a", "b", "c", "d", "e", "f", "A", "B", "C", "D", "E", "F"}

\* C13: derive_symkey_topic does not panic; it returns no result for every
\* responder_public_key that is not hexadecimal or stands for fewer or more
\* than 32 bytes, and a result for every key that stands for exactly 32.
C13_MalformedKeyNoResult ==
    dpc = "returned" =>
        /\ ~derived.panicked
        /\ derived.result # None <=> C_Is32Bytes(responder_public_key)

C13_Witness ==
    /\ dpc = "returned"
    /\ Len(responder_public_key) = 66
    /\ \A i \in 1..66 : responder_public_key[i] \in {"f", "2"}
    /\ derived.result = None

\* C14: when derive_symkey_topic returns, with a result or without one, its
\* copy of the secret and its scalar object hold zero bytes only.
C14_SecretsZeroized ==
    dpc = "returned" =>
        /\ Len(secret_buf) = Len(secret) /\ \A i \in 1..Len(secret_buf) : secret_buf[i] = 0
        /\ Len(client_secret) = Len(secret)
        /\ \A i \in 1..Len(client_secret) : client_secret[i] = 0

C14_Witness ==
    /\ dpc = "returned"
    /\ derived.result = None
    /\ \E i \in 1..Len(secret) : secret[i] # 0
    /\ Len(secret_buf) = 32 /\ \A i \in 1..32 : secret_buf[i] = 0

\* C15 as stated: whatever makes decode_decrypt fail (a text that is not
\* base64, an envelope cut short, another key, a changed bit), the caller gets
\* the one failure value, with no plaintext in it.
C15_FailuresOpaque ==
    cpc = "decoded" /\ outcome.kind # "Ok" => outcome = Err

\* C16: restore_client fails and creates no client when the text is empty
\* or does not deserialize into a SessionInfo.
C16_RestoreRejects ==
    restored.st # "none" /\ (session_info = <<>> \/ ~Deserialize(session_info).ok) =>
        restored.st = "err" /\ restored.client = None

C16_Witness ==
    /\ restored.st = "err" /\ restored.client = None
    /\ session_info # <<>> /\ ~Deserialize(session_info).ok

C18_RestoredState ==
    restored.st = "ok" =>
        LET record == Deserialize(session_info).info
            rc == restored.client[1]
        IN  /\ rc.state = (IF record.connected THEN "Connected" ELSE "Disconnected")
            /\ rc.session.key = record.key

C18_Witness ==
    /\ restored.st = "ok"
    /\ ~Deserialize(session_info).info.connected
    /\ Deserialize(session_info).info.key = "k2"
    /\ restored.client[1].state = "Disconnected"

\* C19: an operation that signs, sends or signs a message, called when the
\* wrapper holds no client or the client's session is not connected, returns
\* an error, makes no request to the peer, and leaves the wrapper's client
\* and runtime as they were.
C19_NoClientNoSession ==
    [][ /\ op = "none" /\ op' \notin {"none", "ensure_session_blocking"}
        /\ client = "None" \/ state # "Connected"
        =>
            /\ tres' = "err"
            /\ \A i \in 1..Len(effects') :
                  effects'[i] \notin {"sign", "send", "personal_sign"}
            /\ UNCHANGED <<client, rt, origin, state, session, channel>> ]_vars

C19_Witness ==
    /\ op = "sign_personal_blocking"
    /\ client = "Some" /\ state = "Pairing"
    /\ tres = "err" /\ terror = <<"sign_personal error", "no session">>
    /\ effects = <<>>

\* C20: when an operation that needs an answer of the peer (ensure_session,
\* personal_sign, sign, send) fails because the peer declined, or because the
\* peer was gone before it answered, the error the operation returns tells
\* which of the two happened; the two failures are never reported alike.
C20_RejectedOrDisconnected ==
    tres = "err" /\ peer \in {"rejected", "disconnected"} =>
        /\ Len(terror) = 2
        /\ terror[2] = peer
        /\ terror[2] # (IF peer = "rejected" THEN "disconnected" ELSE "rejected")

C20_Witness ==
    /\ op = "send_transaction" /\ tres = "err" /\ peer = "disconnected"
    /\ terror = <<"send_typed_transaction error", "disconnected">>

\* the operations that build a transaction from the texts of the request
C_BuildOps ==
    {"sign_eip155_transaction_blocking", "send_eip155_transaction_blocking",
     "sign_contract_transaction", "send_contract_transaction"}

\* a numeric text that is given and is not a decimal integer
C_NotDecimal(text) == text # <<>> /\ ~from_dec_str(text).ok

\* C21: an operation that builds a transaction fails when a numeric text of
\* the request (nonce, gas_limit, gas_price, value) is given and is not a
\* decimal integer; it reports a text as not a number only when one of them
\* is; and a text that is empty leaves its field of the transaction as it was
\* before the texts were applied (unset, or what construction computed).
C21_NumericTexts ==
    op \in C_BuildOps =>
        LET bad == \/ C_NotDecimal(common.nonce)
                   \/ C_NotDecimal(common.gas_limit)
                   \/ C_NotDecimal(common.gas_price)
                   \/ C_NotDecimal(userinfo.value)
        IN  /\ bad => tres = "err"
            /\ terror = <<"invalid decimal">> => bad
            /\ common.nonce = <<>> => typedtx.nonce = built.nonce
            /\ common.gas_limit = <<>> => typedtx.gas = built.gas
            /\ common.gas_price = <<>> =>
                  /\ typedtx.max_fee_per_gas = built.max_fee_per_gas
                  /\ typedtx.max_priority_fee_per_gas = built.max_priority_fee_per_gas
            /\ userinfo.value = <<>> => typedtx.value = built.value

C21_Witness ==
    /\ op = "sign_contract_transaction"
    /\ common.nonce = <<>> /\ common.gas_limit = <<>>
    /\ common.gas_price = <<"1", "x">>
    /\ tres = "err" /\ terror = <<"invalid decimal">>
    /\ built.nonce # None /\ typedtx.nonce = built.nonce

\* the ways the operation that ran can end when it is run once more on the
\* same client with the same arguments
C_Again ==
    IF op = "sign_eip155_transaction_blocking"
    THEN sign_eip155_transaction_blocking(client, state, userinfo, common)
    ELSE IF op = "sign_contract_transaction"
    THEN sign_contract_transaction(client, state, TRUE, common)
    ELSE {}

C_NonceUsed(i) == SubSeq(B64Decode(drawn[i].envelope).bytes, 2, 1 + NonceLen)

\* C23 as stated: under one key, no two encrypt_and_encode calls use the same
\* 12-byte nonce.
C23_NoncesDistinct ==
    \A i, j \in 1..Len(drawn) : i # j => C_NonceUsed(i) # C_NonceUsed(j)

\* C23: every encrypt_and_encode call encrypts under the 12 bytes the random
\* source drew in that call, so two calls under one key use the same nonce
\* only when the random source drew the same 12 bytes in both.
C23_FreshDraw ==
    /\ \A i \in 1..Len(drawn) : C_NonceUsed(i) = drawn[i].nonce
    /\ \A i, j \in 1..Len(drawn) :
          C_NonceUsed(i) = C_NonceUsed(j) => drawn[i].nonce = drawn[j].nonce

C23_Witness ==
    /\ Len(drawn) >= 2
    /\ drawn[1].nonce # drawn[2].nonce
    /\ C_NonceUsed(1) # C_NonceUsed(2)

C25_EnvelopeLayout ==
    cpc # "start" =>
        LET d == B64Decode(envelope)
            n == drawn[Len(drawn)].nonce
        IN  /\ d.ok
            /\ Len(envelope) = 4 * ((Len(d.bytes) + 2) \div 3)
            /\ \A i \in 1..Len(envelope) : envelope[i] \in 0..63 \/ envelope[i] = Pad
            /\ d.bytes[1] = 0
            /\ SubSeq(d.bytes, 2, 1 + NonceLen) = n
            /\ Tail_(d.bytes, 2 + NonceLen) = AeadEncrypt(key, n, data)
            /\ Len(d.bytes) = 1 + NonceLen + Len(data) + TagLen

C25_Witness ==
    /\ cpc = "encoded"
    /\ Len(data) = 2
    /\ Len(EnvelopeBytes) = 31
    /\ envelope[Len(envelope)] = Pad

\* C26 as stated: a fee-market transaction built for sign or send carries
\* common.chainid as its chain id when common.chainid is not 0, and no chain
\* id when common.chainid is 0.
C26_ChainIdWhenNonzero ==
    /\ op \in {"sign_eip155_transaction_blocking", "send_eip155_transaction_blocking"}
    /\ tres = "ok"
    =>
        /\ common.chainid # 0 => typedtx.chain_id = Some(common.chainid)
        /\ common.chainid = 0 => typedtx.chain_id = None

\* C27: every blocking operation of the wrapper (personal sign, callback
\* setup, ensure_session, get_connection_string, save, print_uri, sign and
\* send in all variants, construction for contract actions included) runs
\* each piece of its asynchronous work on the wrapper's one runtime, and the
\* wrapper's runtime is never replaced.
C27_SingleRuntime ==
    [][ /\ rt' = rt
        /\ Len(ran') >= Len(ran)
        /\ \A i \in (Len(ran) + 1)..Len(ran') : ran'[i] = rt ]_vars

C27_Witness ==
    /\ op = "send_contract_transaction" /\ tres = "ok"
    /\ effects = <<"web3", "send">>
    /\ saved.st = "ok"
    /\ Len(setups) = 1
    /\ Len(ran) = 5
    /\ \A i \in 1..Len(ran) : ran[i] = rt

\* C28: at most one request to sign or send is with the peer at any time,
\* and at most one sign or send call on the wrapper is running: a call has
\* returned, and its request has completed, before another call on the same
\* wrapper hands its request (and its clone of the client) to the peer.
C28_OneInFlight ==
    /\ Cardinality(inflight) <= 1
    /\ Cardinality(pending) <= 1
    /\ \A f \in inflight : \E p \in pending : p.caller = f.caller

C28_Witness ==
    /\ op = "sign_transaction" /\ tres = "ok" /\ effects = <<"sign">>
    /\ \E p \in pending : p.op = "send_transaction" /\ p.caller = "t2"
    /\ inflight = {[caller |-> "t2", kind |-> "send"]}

====
